---- MODULE Spec2Model ----
(***************************************************************************)
(* Request handlers of backend/main.py: the AI-analysis gate and cache     *)
(* (get_ai_analysis) and the position endpoints (execute_trade,            *)
(* update_position, close_position).                                       *)
(*                                                                         *)
(* Every endpoint is an `async def` that never awaits: once the event loop *)
(* has entered a handler, no other handler runs until it returns.  The     *)
(* variable loop holds the handler that owns the event-loop thread.        *)
(***************************************************************************)
EXTENDS Integers, Sequences, FiniteSets, TLC

None == "None"
\* a symbol with no entry in analysis_cache
NoEntry == [status |-> "absent"]

\* ---------------------------------------------------------------- bounds
MaxReq == 3        \* analysis requests a client issues in one run
MaxTime == 900     \* the clock stops advancing here (seconds)
TickStep == 450    \* seconds the clock advances in one step

MaxOps == 3        \* position requests (trade, update, close) handled in one run
MaxPos == 2        \* positions opened in one run
MaxTrades == 3     \* trades in a history handed to a summary

Reqs == 1..MaxReq

\* ------------------------------------------------------------ constants
\* main.py:948-950
supported_symbols == {"BTC", "ETH", "SOL", "XRP"}
additional_symbols == {"USDC", "BTC-USDC", "ADA", "DOGE", "SHIB"}
all_symbols == supported_symbols \cup additional_symbols

\* the symbols requests of the model carry: a supported one, one that may
\* fall back to mock data, one the endpoint does not know
Symbols == {"BTC", "DOGE", "LTC"}

\* main.py:965  "15 * 60"
CacheTTL == 15 * 60

\* main.py:735-736  default stop loss 5% below, take profit 10% above entry
StopLossPct == 95
TakeProfitPct == 110

\* inputs of the position requests; 0 stands for a field the request omits
\* (None) or gives as 0, which `if update.stop_loss:` treats alike
Prices == {100, 200}
Amounts == {200, 400}
Balances == {0, 1000}
StopValues == {0, 90}
SizeValues == {0, 3}
ProfitValues == {0, 130}
IdNames == <<"p1", "p2", "p3", "p4">>
PosIds == {IdNames[i] : i \in 1..MaxPos}

VARIABLES
    trader,                 \* global trader (main.py:203): None or the engine handle
    analysis_cache,         \* symbol -> NoEntry | [status, data, timestamp]
    analysis_in_progress,   \* symbol -> BOOLEAN (a missing key reads as FALSE)
    now,                    \* datetime.now(), in seconds
    loop,                   \* the request whose handler owns the event loop, 0 = idle
    req,                    \* per request: its symbol, position in the handler, outcome
    positions,              \* the persisted Position Store: id -> position
    trade_history,          \* the engine's trade log, append-only
    next_id,                \* index of the next fresh position id
    orders,                 \* orders the engine has placed on the exchange
    ops,                    \* position requests handled so far
    h,                      \* the update_position handler in progress
    resp,                   \* the last response of a position endpoint
    file,                   \* a persisted JSON file: whether it exists, and its text
    writer,                 \* the save of that file in progress
    saved,                  \* the data of the last save that ran to its end
    found,                   \* what the last load found and returned
    api_keys_file,          \* config/api_keys.json: NoKeys or the keys saved in it
    summary,                \* the last profit summary computed
    trades,                 \* the trades handed to get_performance_summary
    perf,                   \* its last result
    prev,                   \* its result before that
    pnl                     \* a trade and what the profit functions made of it

avars == <<analysis_cache, analysis_in_progress, now, req>>
pvars == <<positions, trade_history, next_id, orders, ops, h, resp>>
fvars == <<file, writer, saved, found, api_keys_file>>
svars == <<summary, trades, perf, prev, pnl>>
vars == <<trader, analysis_cache, analysis_in_progress, now, loop, req,
          positions, trade_history, next_id, orders, ops, h, resp,
          file, writer, saved, found, api_keys_file, summary, trades, perf, prev, pnl>>

Engine == "BitcoinAITrader"

\* by: the crypto asset of the trader that runs the analysis of the request
NewReq == [sym |-> None, pc |-> "new", out |-> None, ret |-> NoEntry,
           worker |-> None, ran |-> FALSE, by |-> None,
           busyAtIssue |-> FALSE, peers |-> {},
           sawBusy |-> FALSE, entry |-> NoEntry, at |-> -1]

\* ------------------------------------------------------------- helpers
\* main.py:965  (datetime.now() - timestamp).total_seconds() < 15 * 60
is_fresh_stale(timestamp, t) == t - timestamp <= CacheTTL
is_fresh(timestamp, t) == t - timestamp < CacheTTL

\* main.py:1045-1049
formatted_result_old(data, t) == [status |-> "success", data |-> data, timestamp |-> 0]
formatted_result(data, t) == [status |-> "success", data |-> data, timestamp |-> t]

\* main.py:1055-1057  finally: analysis_in_progress[symbol] = False
release_skipped(ip, s) == ip
release(ip, s) == [ip EXCEPT ![s] = FALSE]

\* main.py:960-967  return cached_analysis: the entry goes out as it is in
\* the cache and stays there
served_refreshed(entry, t) == [entry EXCEPT !.timestamp = t]
served(entry, t) == entry

\* main.py:969-970  analysis_in_progress[symbol] = True
acquire(ip, s) == [ip EXCEPT ![s] = TRUE]

InPipeline(r) == req[r].pc \in {"fetch", "fetch_join", "mock", "analyze", "analyze_join"}

\* the handler of r leaves the try block: the finally clause runs and the
\* response goes out; the event loop is free again
Finish(r, status, entry) ==
    /\ req' = [req EXCEPT ![r].pc = "done", ![r].out = status, ![r].ret = entry,
                          ![r].worker = None]
    /\ analysis_in_progress' = release(analysis_in_progress, req[r].sym)
    /\ loop' = 0

\* --------------------------------------------------------- Position Store
\* The store and the trade log live in the trading engine (BitcoinAITrader),
\* which the handlers call; its operations follow the Position Store
\* contract: each reads the persisted set, changes it and persists it.
NewPosition(entry, size, sl, tp) ==
    [entry_price |-> entry, size |-> size, stop_loss |-> sl, take_profit |-> tp]

load_active_positions(store) == store

save_active_positions(store, new) == new

add_position(store, id, p) ==
    [i \in DOMAIN store \cup {id} |-> IF i = id THEN p ELSE store[i]]

update_position_stop_loss(store, id, v) == [store EXCEPT ![id].stop_loss = v]

update_position_size(store, id, v) == [store EXCEPT ![id].size = v]

remove_position(store, id) == [i \in DOMAIN store \ {id} |-> store[i]]

log_trade(hist, id, size, side, price) ==
    Append(hist, [position_id |-> id, size |-> size, side |-> side, price |-> price])

\* main.py:802-804, 831-833, 873-875: `except Exception` around the handler
\* body catches whatever is raised in it, an HTTPException with its own
\* status included, and raises HTTPException(500) in its place
raised_in_try(status) == "500"

\* main.py:735-736
default_stop_loss_wide(price) == (price * (StopLossPct - 5)) \div 100
default_stop_loss(price) == (price * StopLossPct) \div 100
default_take_profit(price) == (price * TakeProfitPct) \div 100

\* the event loop is held by a position handler
PosLoop == -1

\* main.py:674-675, 806-807, 835-836: the endpoints are coroutines
\* (`async def`) with no await in their bodies; the event loop enters one
\* only when no other handler is running on it
loop_free_threadpool(l) == TRUE
loop_free(l) == l = 0

Idle == [pc |-> "idle", pid |-> None, stop_loss |-> 0, size |-> 0, take_profit |-> 0,
         snap |-> <<>>]

\* what a BUY whose order went through handed to add_position, and the
\* engine call that raised
NoGiven == [price |-> 0, size |-> 0, fail |-> None]

\* the TradeRequest of an execute-trade call and the balances the engine
\* reported to it
NoTrade == [action |-> None, amount |-> 0, order_type |-> None, tif |-> None,
            usd |-> 0, btc |-> 0]

\* placed: the handler called the engine's execute_trade; result: what the
\* call returned
NoResp == [kind |-> "none", status |-> None, pid |-> None, absent |-> FALSE,
           before |-> <<>>, position_id |-> None, given |-> NoGiven,
           trade |-> NoTrade, placed |-> FALSE, result |-> None]

Response(kind, status, pid, absent, before, position_id) ==
    [kind |-> kind, status |-> status, pid |-> pid, absent |-> absent,
     before |-> before, position_id |-> position_id, given |-> NoGiven,
     trade |-> NoTrade, placed |-> FALSE, result |-> None]

\* main.py:696-710  the balance the order is checked against:
\* balance['USD']['available'] for a BUY, balance['BTC']['available'] for a SELL
available_usd(action, usd, btc) == usd
available(action, usd, btc) == IF action = "BUY" THEN usd ELSE btc

\* main.py:856  isinstance(result, dict) and result.get('success')
sell_succeeded_any(result) == TRUE
sell_succeeded(result) == result = "success"

\* ---------------------------------------------------------- JSON files
\* utils.py:6-20 and main.py:211-238.  The data saved is a mapping from keys
\* to numbers; the text of a file is the sequence of chunks json.dump hands
\* to write(): the opening brace, one chunk per item, the closing brace.
EmptyMap == [k \in {} |-> 0]
Docs == {EmptyMap} \cup {[k \in {"p1"} |-> v] : v \in {1, 2}}
             \cup {[k \in {"p1", "p2"} |-> 1]}
Open == [t |-> "{"]
Close == [t |-> "}"]
Item(k, v) == [t |-> "item", k |-> k, v |-> v]

NoFile == [exists |-> FALSE, text |-> <<>>]
NoWriter == [pc |-> "idle", fn |-> None, doc |-> EmptyMap, out |-> None]
NoData == [any |-> FALSE, doc |-> EmptyMap]
\* the `default` argument of load_json_file: None, or a value
NoDefault == [given |-> FALSE, value |-> EmptyMap]
Defaults == {NoDefault, [given |-> TRUE, value |-> [k \in {"p1"} |-> 0]]}
NoLoad == [read |-> FALSE, raw |-> NoFile, default |-> NoDefault, during |-> FALSE,
           old |-> NoData, new |-> NoData, raised |-> FALSE, value |-> EmptyMap]

\* json.dump(data, f): the chunks it writes, keys in the order of the dict
dumps(doc) ==
    LET keys == SelectSeq(IdNames, LAMBDA k : k \in DOMAIN doc)
    IN  <<Open>> \o [i \in 1..Len(keys) |-> Item(keys[i], doc[keys[i]])] \o <<Close>>

\* json.load(f): the text is a document when it opens with a brace, closes
\* with one and holds items in between; anything else is a JSONDecodeError
decodes(text) ==
    /\ Len(text) >= 2
    /\ text[1] = Open
    /\ text[Len(text)] = Close
    /\ \A i \in 2..(Len(text) - 1) : text[i].t = "item"

loads(text) ==
    LET items == {text[i] : i \in 2..(Len(text) - 1)}
    IN  [k \in {it.k : it \in items} |-> (CHOOSE it \in items : it.k = k).v]

\* utils.py:6-12
load_json_file_strict(f, default) ==
    IF ~f.exists
    THEN [raised |-> FALSE, value |-> IF default.given THEN default.value ELSE EmptyMap]
    ELSE IF ~decodes(f.text)
    THEN [raised |-> TRUE, value |-> EmptyMap]
    ELSE [raised |-> FALSE, value |-> loads(f.text)]
load_json_file(f, default) ==
    IF ~f.exists \/ ~decodes(f.text)
    THEN [raised |-> FALSE, value |-> IF default.given THEN default.value ELSE EmptyMap]
    ELSE [raised |-> FALSE, value |-> loads(f.text)]

\* ------------------------------------------------------------ summaries
\* a Python float that is a quotient: num / den
Ratio(n, d) == [num |-> n, den |-> d]
Whole(n) == Ratio(n, 1)

\* dict.get(key, default)
get(d, k, default) == IF k \in DOMAIN d THEN d[k] ELSE default

\* sum(...) over the first n elements
RECURSIVE SumTo(_, _)
SumTo(f, n) == IF n = 0 THEN 0 ELSE f[n] + SumTo(f, n - 1)

\* utils.py:35-40
calculate_profit_loss_long_only(entry_price, current_price, size, is_long) ==
    (current_price - entry_price) * size
calculate_profit_loss(entry_price, current_price, size, is_long) ==
    IF is_long THEN (current_price - entry_price) * size
               ELSE (entry_price - current_price) * size

\* utils.py:234-236, 240-241  (x / base) * 100 if base > 0, else the initial 0
percentage_plain(x, base) == IF base > 0 THEN Ratio(x, base) ELSE Whole(0)
percentage(x, base) == IF base > 0 THEN Ratio(x * 100, base) ELSE Whole(0)

\* utils.py:214  closed_positions.add(trade.get("position_id"))
closed_add_each(closed, trade) ==
    closed \cup {<<Cardinality(closed), get(trade, "position_id", None)>>}
closed_add(closed, trade) == closed \cup {get(trade, "position_id", None)}

\* utils.py:206-216  the pass over the trade history
RECURSIVE first_pass(_, _)
first_pass(th, acc) ==
    IF th = <<>> THEN acc
    ELSE LET trade == Head(th)
         IN first_pass(Tail(th),
              IF get(trade, "side", None) = "BUY"
              THEN [acc EXCEPT !.total_investment =
                                   @ + get(trade, "price", 0) * get(trade, "size", 0),
                               !.total_buy_volume = @ + get(trade, "size", 0)]
              ELSE IF get(trade, "side", None) = "SELL"
              THEN [acc EXCEPT !.total_sell_volume = @ + get(trade, "size", 0),
                               !.closed_positions = closed_add(@, trade),
                               !.realized_profit =
                                   @ + IF "profit_amount" \in DOMAIN trade
                                       THEN trade.profit_amount ELSE 0]
              ELSE acc)

\* the active_positions argument: the list of positions its docstring
\* names (utils.py:181), or the mapping id -> position that
\* trader.load_active_positions() returns (main.py:918)
as_list(store) ==
    LET ids == SelectSeq(IdNames, LAMBDA k : k \in DOMAIN store)
    IN [kind |-> "list", items |-> [i \in 1..Len(ids) |-> store[ids[i]]]]
as_mapping(store) ==
    [kind |-> "dict", items |-> SelectSeq(IdNames, LAMBDA k : k \in DOMAIN store),
     map |-> store]

\* `for position in active_positions`: a list yields its elements, a dict
\* yields its keys, which are strings
iterate(ap) ==
    [i \in 1..Len(ap.items) |->
        IF ap.kind = "dict" THEN [type |-> "str", v |-> ap.items[i]]
                            ELSE [type |-> "dict", v |-> ap.items[i]]]

\* utils.py:175-243.  position.get(...) on a string raises AttributeError.
\* total_investment is the local of that name at the return.
calculate_total_profit_summary(th, ap, cp) ==
    LET acc == first_pass(th, [total_investment |-> 0, total_buy_volume |-> 0,
                               total_sell_volume |-> 0, closed_positions |-> {},
                               realized_profit |-> 0])
        elems == iterate(ap)
        n == Len(ap.items)
    IN  IF \E i \in 1..n : elems[i].type = "str"
        THEN [raised |-> TRUE]
        ELSE LET unrealized ==
                     SumTo([i \in 1..n |->
                              LET entry_price == get(elems[i].v, "entry_price", 0)
                                  size == get(elems[i].v, "size", 0)
                              IN IF entry_price > 0 /\ size > 0
                                 THEN calculate_profit_loss(entry_price, cp, size, TRUE)
                                 ELSE 0], n)
                 open_positions_value ==
                     SumTo([i \in 1..n |-> get(elems[i].v, "entry_price", 0)
                                              * get(elems[i].v, "size", 0)], n)
                 total == acc.realized_profit + unrealized
             IN [raised |-> FALSE,
                 realized_profit |-> acc.realized_profit,
                 unrealized_profit |-> unrealized,
                 total_profit |-> total,
                 realized_profit_percentage |->
                     percentage(acc.realized_profit, acc.total_investment),
                 unrealized_profit_percentage |->
                     percentage(unrealized, open_positions_value),
                 total_profit_percentage |-> percentage(total, acc.total_investment),
                 total_buy_volume |-> acc.total_buy_volume,
                 total_sell_volume |-> acc.total_sell_volume,
                 open_positions_count |-> n,
                 closed_positions_count |-> Cardinality(acc.closed_positions),
                 total_investment |-> acc.total_investment]

\* trade histories the summary is applied to: complete BUY and SELL
\* records, several SELLs of one position, and records that lack price,
\* profit_amount or side
TradeRecords ==
    { [side |-> "BUY", position_id |-> "p1", price |-> 100, size |-> 2],
      [side |-> "BUY", position_id |-> "p2", size |-> 1],
      [side |-> "SELL", position_id |-> "p1", price |-> 120, size |-> 1, profit_amount |-> 20],
      [side |-> "SELL", position_id |-> "p1", price |-> 90, size |-> 1, profit_amount |-> -10],
      [side |-> "SELL", position_id |-> "p2", size |-> 1],
      [position_id |-> "p1", price |-> 100, size |-> 1] }
Histories == UNION {[1..n -> TradeRecords] : n \in 0..MaxTrades}

\* stores the summary is applied to
SamplePosition(id) ==
    IF id = "p1" THEN NewPosition(100, 2, default_stop_loss(100), default_take_profit(100))
                 ELSE NewPosition(200, 1, default_stop_loss(200), default_take_profit(200))
Stores == {[id \in S |-> SamplePosition(id)] : S \in SUBSET PosIds}
CurrentPrices == {120, 150}

NoSummary == [via |-> "none", status |-> None, current_price |-> 0, fail |-> None,
              data |-> [raised |-> TRUE]]
\* the outcome of a Python division whose divisor is 0
ZeroDivisionError == [raised |-> TRUE, error |-> "ZeroDivisionError"]

\* utils.py:42-47  x / entry_price * 100: no guard on entry_price
calculate_profit_loss_percentage(entry_price, current_price, is_long) ==
    IF entry_price = 0 THEN ZeroDivisionError
    ELSE IF is_long THEN Ratio((current_price - entry_price) * 100, entry_price)
                    ELSE Ratio((entry_price - current_price) * 100, entry_price)

\* utils.py:51-58  the call of is_successful_trade(trade_data) raises
is_successful_trade_raises(trade_data) ==
    /\ "entry_price" \in DOMAIN trade_data /\ "exit_price" \in DOMAIN trade_data
    /\ calculate_profit_loss_percentage(trade_data.entry_price, trade_data.exit_price,
           get(trade_data, "side", "BUY") = "BUY") = ZeroDivisionError

\* utils.py:49-59  pl_pct > 0, the value of a call that returns
is_successful_trade(trade_data) ==
    IF "entry_price" \notin DOMAIN trade_data \/ "exit_price" \notin DOMAIN trade_data
    THEN FALSE
    ELSE LET pl_pct == calculate_profit_loss_percentage(trade_data.entry_price,
                           trade_data.exit_price, get(trade_data, "side", "BUY") = "BUY")
         IN pl_pct # ZeroDivisionError /\ pl_pct.num * pl_pct.den > 0

\* utils.py:105  not is_successful_trade(t) and 'exit_price' in t
is_losing_trade_any(tr) == ~is_successful_trade(tr)
is_losing_trade(tr) == ~is_successful_trade(tr) /\ "exit_price" \in DOMAIN tr

\* t['entry_price'], t['exit_price'], t['size']: KeyError for a missing key
key_error(tr) == \E k \in {"entry_price", "exit_price", "size"} : k \notin DOMAIN tr

\* utils.py:108-113  the profit or loss of one trade
trade_profit_loss(tr) ==
    calculate_profit_loss(tr.entry_price, tr.exit_price, tr.size,
                          get(tr, "side", "BUY") = "BUY")

Max(S) == CHOOSE x \in S : \A y \in S : x >= y
Min(S) == CHOOSE x \in S : \A y \in S : x <= y

\* utils.py:117-127, 129-139  (sum(...) / len(subset)) if subset else 0
average_unguarded(total, n) == Ratio(total, n)
average(total, n) == IF n # 0 THEN Ratio(total, n) ELSE Whole(0)

\* utils.py:91-173
get_performance_summary(ts) ==
    IF ts = <<>>
    THEN [raised |-> FALSE, total_trades |-> 0, win_rate |-> Whole(0), profit_loss |-> 0,
          avg_profit_per_trade |-> Whole(0), avg_loss_per_trade |-> Whole(0),
          max_profit |-> 0, max_loss |-> 0]
    ELSE LET winning_trades == SelectSeq(ts, is_successful_trade)
             losing_trades == SelectSeq(ts, is_losing_trade)
             closed == SelectSeq(ts, LAMBDA tr : "exit_price" \in DOMAIN tr)
             total(s) == SumTo([i \in 1..Len(s) |-> trade_profit_loss(s[i])], Len(s))
             each(s) == {trade_profit_loss(s[i]) : i \in 1..Len(s)}
         IN  IF \E i \in 1..Len(ts) : is_successful_trade_raises(ts[i])
             THEN ZeroDivisionError
             ELSE IF \E s \in {closed, winning_trades, losing_trades} :
                    \E i \in 1..Len(s) : key_error(s[i])
             THEN [raised |-> TRUE, error |-> "KeyError"]
             ELSE [raised |-> FALSE,
                   total_trades |-> Len(ts),
                   win_rate |-> Ratio(Len(winning_trades) * 100, Len(ts)),
                   profit_loss |-> total(closed),
                   avg_profit_per_trade |->
                       average(total(winning_trades), Len(winning_trades)),
                   avg_loss_per_trade |->
                       average(total(losing_trades), Len(losing_trades)),
                   max_profit |-> IF winning_trades # <<>> THEN Max(each(winning_trades)) ELSE 0,
                   max_loss |-> IF losing_trades # <<>> THEN Min(each(losing_trades)) ELSE 0]

\* trades the summarizer is applied to: a winner, a loser, an open trade, a
\* winning short, closed trades that lack entry_price or size, and a closed
\* trade whose entry_price is 0
OpenTrade == [entry_price |-> 100, size |-> 1]
ClosedTrades ==
    { [entry_price |-> 100, exit_price |-> 120, size |-> 2],
      [entry_price |-> 100, exit_price |-> 90, size |-> 1],
      [side |-> "SELL", entry_price |-> 100, exit_price |-> 90, size |-> 1],
      [exit_price |-> 120, size |-> 1],
      [entry_price |-> 100, exit_price |-> 120],
      [entry_price |-> 0, exit_price |-> 120, size |-> 1] }
PerfRecords == ClosedTrades \cup {OpenTrade}
TradeLists == UNION {[1..n -> PerfRecords] : n \in 0..MaxTrades}

NoPerf == [computed |-> FALSE, trades |-> <<>>, result |-> [raised |-> TRUE]]

\* what a call of one of the profit functions came to: it was not made, it
\* returned a value, or it raised
NotCalled == [raised |-> FALSE, called |-> FALSE]
Value(v) == [raised |-> FALSE, called |-> TRUE, value |-> v]
\* the trades the profit functions are called with one at a time: entry
\* prices 0 and above, exit prices below and above them, long and short
PnLTrades ==
    [side : {"BUY", "SELL"}, entry_price : {0, 100, 150}, exit_price : {90, 120},
     size : {1, 2}]
NoPnL == [trade |-> OpenTrade, long |-> NotCalled, short |-> NotCalled,
          pct |-> NotCalled, win |-> NotCalled]

\* ------------------------------------------------------ trader creation
\* main.py:211-225  load_api_keys_from_file: None when the file is missing
\* or unreadable; NoKeys stands for that file and for that None
NoKeys == [exists |-> FALSE]
SavedKeys == [coinbase_api_key |-> "k", coinbase_api_secret |-> "k", openai_api_key |-> "k"]
load_api_keys_from_file(f) == f

\* trader_factory.py:21-50  create_trader(coinbase_api_key, coinbase_api_secret,
\* openai_api_key) called with the keyword arguments kw: a keyword that is
\* not a parameter is a TypeError; built says whether BitcoinAITrader(...)
\* constructs or raises
create_trader(kw, built) ==
    IF DOMAIN kw # {"coinbase_api_key", "coinbase_api_secret", "openai_api_key"}
    THEN [raised |-> TRUE, error |-> "TypeError", value |-> None]
    ELSE IF ~built THEN [raised |-> TRUE, error |-> "Exception", value |-> None]
    ELSE [raised |-> FALSE, error |-> None, value |-> Engine]

\* main.py:381-420  create_trader_safe(**kwargs): None for a missing or
\* empty key and for whatever create_trader raises
create_trader_safe(kwargs, built) ==
    LET coinbase_api_key == get(kwargs, "coinbase_api_key", "")
        coinbase_api_secret == get(kwargs, "coinbase_api_secret", "")
        openai_api_key == IF get(kwargs, "openai_api_key", "") # ""
                          THEN kwargs.openai_api_key ELSE get(kwargs, "ai_api_key", "")
        crypto_asset == get(kwargs, "crypto_asset", "BTC")
    IN  IF "" \in {coinbase_api_key, coinbase_api_secret, openai_api_key}
        THEN None
        ELSE LET made == create_trader([coinbase_api_key |-> coinbase_api_key,
                                        coinbase_api_secret |-> coinbase_api_secret,
                                        openai_api_key |-> openai_api_key,
                                        crypto_asset |-> crypto_asset], built)
             IN  IF made.raised THEN None ELSE made.value

\* main.py:972-986  the trader that runs the analysis of symbol: a trader
\* built for the symbol when there is one, else the global trader, whose
\* asset is BTC
temp_trader_for(symbol, keys, built) ==
    IF symbol # "BTC" /\ keys # NoKeys
    THEN create_trader_safe([coinbase_api_key |-> get(keys, "coinbase_api_key", ""),
                             coinbase_api_secret |-> get(keys, "coinbase_api_secret", ""),
                             openai_api_key |-> get(keys, "openai_api_key", ""),
                             crypto_asset |-> symbol], built)
    ELSE None
asset_of_current_trader(symbol, temp_trader) ==
    IF temp_trader # None THEN symbol ELSE "BTC"

\* bodies of POST /api/configure: the three keys, the three keys with an
\* empty one among them, and a body that lacks a key
ConfigBodies ==
    { SavedKeys,
      [coinbase_api_key |-> "k", coinbase_api_secret |-> "k", openai_api_key |-> ""],
      [coinbase_api_key |-> "k", coinbase_api_secret |-> "k"] }

\* The handlers are examined both without and with an installed trader, as
\* if a configuration had installed one and had left its keys in the key
\* file.  With the create_trader of trader_factory.py:21 no call of
\* create_trader_safe installs one (see ConfigureApi): the installed trader
\* is an assumption the handlers' claims are examined under.
InitGate ==
    /\ trader \in {None, Engine}
    /\ api_keys_file = IF trader = None THEN NoKeys ELSE SavedKeys
    /\ analysis_cache = [s \in Symbols |-> NoEntry]
    /\ analysis_in_progress = [s \in Symbols |-> FALSE]
    /\ now = 0
    /\ loop = 0
    /\ req = [r \in Reqs |-> NewReq]

InitHandlers ==
    /\ orders = 0
    /\ ops = 0
    /\ h = Idle
    /\ resp = NoResp

InitFile ==
    /\ file = NoFile
    /\ writer = NoWriter
    /\ saved = NoData
    /\ found = NoLoad

Init ==
    /\ InitGate
    /\ InitHandlers
    /\ InitFile
    /\ positions = <<>>
    /\ trade_history = <<>>
    /\ next_id = 1
    /\ summary = NoSummary
    /\ trades = <<>>
    /\ perf = NoPerf
    /\ prev = NoPerf
    /\ pnl = NoPnL

\* the summarizer's caller holds some list of trades
InitPerformance ==
    /\ InitGate
    /\ InitHandlers
    /\ InitFile
    /\ positions = <<>>
    /\ trade_history = <<>>
    /\ next_id = 1
    /\ summary = NoSummary
    /\ trades \in TradeLists
    /\ perf = NoPerf
    /\ prev = NoPerf
    /\ pnl = NoPnL

\* a caller of the profit functions holds one closed trade
InitPnL ==
    /\ InitGate
    /\ InitHandlers
    /\ InitFile
    /\ positions = <<>>
    /\ trade_history = <<>>
    /\ next_id = 1
    /\ summary = NoSummary
    /\ \E tr \in PnLTrades :
          /\ pnl = [NoPnL EXCEPT !.trade = tr]
          /\ trades = <<tr>>
    /\ perf = NoPerf
    /\ prev = NoPerf

\* a server whose store and trade log hold what earlier runs left there
InitProfit ==
    /\ InitGate
    /\ InitHandlers
    /\ InitFile
    /\ positions \in Stores
    /\ trade_history \in Histories
    /\ next_id = MaxPos + 1
    /\ summary = NoSummary
    /\ trades = <<>>
    /\ perf = NoPerf
    /\ prev = NoPerf
    /\ pnl = NoPnL

\* ------------------------------------------------------------- actions
\* a client sends GET /api/ai-analysis?symbol=s; it waits for the event loop
Issue(r, s) ==
    /\ req[r].pc = "new"
    /\ \A q \in Reqs : q < r => req[q].pc # "new"
    /\ req' = [req EXCEPT ![r].sym = s, ![r].pc = "queued",
                          ![r].busyAtIssue = analysis_in_progress[s],
                          ![r].peers = IF analysis_cache[s] = NoEntry /\ ~analysis_in_progress[s]
                                       THEN {q \in Reqs : req[q].pc = "queued" /\ req[q].sym = s}
                                       ELSE {}]
    /\ UNCHANGED <<trader, analysis_cache, analysis_in_progress, now, loop>>
    /\ UNCHANGED <<pvars, fvars, svars>>

\* main.py:933-986: the event loop enters the handler; it runs without
\* interruption up to the first blocking call
AnalysisStart(r) ==
    /\ loop = 0
    /\ req[r].pc = "queued"
    /\ LET s == req[r].sym
           seen == [req EXCEPT ![r].sawBusy = analysis_in_progress[s],
                               ![r].entry = analysis_cache[s], ![r].at = now]
       IN
       IF trader = None \/ s \notin all_symbols
       THEN /\ req' = [seen EXCEPT ![r].pc = "done", ![r].out = "400"]
            /\ UNCHANGED <<analysis_cache, analysis_in_progress, loop>>
       ELSE IF analysis_in_progress[s]
       THEN /\ req' = [seen EXCEPT ![r].pc = "done", ![r].out = "429"]
            /\ UNCHANGED <<analysis_cache, analysis_in_progress, loop>>
       ELSE IF analysis_cache[s] # NoEntry /\ is_fresh(analysis_cache[s].timestamp, now)
       THEN /\ analysis_cache' =
                   [analysis_cache EXCEPT ![s] = served(analysis_cache[s], now)]
            /\ req' = [seen EXCEPT ![r].pc = "done", ![r].out = "cached",
                                   ![r].ret = analysis_cache'[s]]
            /\ UNCHANGED <<analysis_in_progress, loop>>
       ELSE /\ UNCHANGED analysis_cache
            /\ analysis_in_progress' = acquire(analysis_in_progress, s)
            /\ \E built \in BOOLEAN :
                  LET keys == load_api_keys_from_file(api_keys_file)
                      temp_trader == temp_trader_for(s, keys, built)
                  IN  req' = [seen EXCEPT ![r].pc = "fetch", ![r].ran = TRUE,
                                          ![r].by = asset_of_current_trader(s, temp_trader)]
            /\ loop' = r
    /\ UNCHANGED <<trader, now>>
    /\ UNCHANGED <<pvars, fvars, svars>>

\* main.py:988-1028: fetch_market_data returned within 30 s, or raised.
\* ind: whether calculate_technical_indicators raises; w: whether the mock
\* fetch that follows an error for an additional symbol ever returns
FetchReturns(r, res, ind, w) ==
    /\ loop = r
    /\ req[r].pc = "fetch"
    /\ \/ /\ res = "data"
          /\ IF ind = "ok"
             THEN /\ req' = [req EXCEPT ![r].pc = "analyze"]
                  /\ UNCHANGED <<analysis_in_progress, loop>>
             ELSE Finish(r, "500", NoEntry)
       \/ /\ res = "empty"
          /\ Finish(r, "500", NoEntry)
       \/ /\ res = "error"
          /\ IF req[r].sym \in additional_symbols
             THEN /\ req' = [req EXCEPT ![r].pc = "mock", ![r].worker = w]
                  /\ UNCHANGED <<analysis_in_progress, loop>>
             ELSE Finish(r, "500", NoEntry)
    /\ UNCHANGED <<trader, analysis_cache, now>>
    /\ UNCHANGED <<pvars, fvars, svars>>

\* main.py:991-996 and 1033-1038: future.result(timeout) raised TimeoutError;
\* leaving the `with ThreadPoolExecutor()` block calls shutdown(wait=True),
\* which joins the worker thread.  w says whether the worker ever returns.
CallTimesOut(r, w) ==
    /\ loop = r
    /\ req[r].pc \in {"fetch", "analyze"}
    /\ req' = [req EXCEPT ![r].pc = IF req[r].pc = "fetch" THEN "fetch_join" ELSE "analyze_join",
                          ![r].worker = w]
    /\ UNCHANGED <<trader, analysis_cache, analysis_in_progress, now, loop>>
    /\ UNCHANGED <<pvars, fvars, svars>>

\* the timed-out worker returns, shutdown(wait=True) ends, the 504 is raised
JoinReturns(r) ==
    /\ loop = r
    /\ req[r].pc \in {"fetch_join", "analyze_join"}
    /\ req[r].worker = "live"
    /\ Finish(r, "504", NoEntry)
    /\ UNCHANGED <<trader, analysis_cache, now>>
    /\ UNCHANGED <<pvars, fvars, svars>>

\* main.py:1000-1028: mock data for an additional symbol, fetched on the
\* event-loop thread itself with no timeout
MockReturns(r, res, ind) ==
    /\ loop = r
    /\ req[r].pc = "mock"
    /\ req[r].worker = "live"
    /\ IF res = "data" /\ ind = "ok"
       THEN /\ req' = [req EXCEPT ![r].pc = "analyze", ![r].worker = None]
            /\ UNCHANGED <<analysis_in_progress, loop>>
       ELSE Finish(r, "500", NoEntry)
    /\ UNCHANGED <<trader, analysis_cache, now>>
    /\ UNCHANGED <<pvars, fvars, svars>>

\* main.py:1030-1057: analyze_with_ai returned within 60 s, or raised; the
\* data of the result is the analysis of the asset of the trader that ran it
AnalysisReturns(r, res) ==
    /\ loop = r
    /\ req[r].pc = "analyze"
    /\ IF res = "result"
       THEN LET entry == formatted_result(req[r].by, now)
            IN /\ analysis_cache' = [analysis_cache EXCEPT ![req[r].sym] = entry]
               /\ Finish(r, "success", entry)
       ELSE /\ Finish(r, "500", NoEntry)
            /\ UNCHANGED analysis_cache
    /\ UNCHANGED <<trader, now>>
    /\ UNCHANGED <<pvars, fvars, svars>>

\* wall-clock time passes, also while a handler blocks
Tick ==
    /\ now + TickStep <= MaxTime
    /\ now' = now + TickStep
    /\ UNCHANGED <<trader, analysis_cache, analysis_in_progress, loop, req>>
    /\ UNCHANGED <<pvars, fvars, svars>>

\* ---------------------------------------------------------- configuration
\* main.py:423-464  POST /api/configure, the whole handler after
\* `await request.json()`.  parsed: whether request.json() returned the
\* body; save: how save_api_keys_to_file ended, which logs its own errors
\* (main.py:229-238); built: whether BitcoinAITrader(...) would construct.
ConfigureApi(data, parsed, save, built) ==
    /\ loop_free(loop)
    /\ LET reply(status) == Response("configure", status, None, FALSE, positions, None)
           given == {"coinbase_api_key", "coinbase_api_secret", "openai_api_key"}
                        \subseteq DOMAIN data
       IN  IF ~parsed
           THEN /\ resp' = reply(raised_in_try("error"))
                /\ UNCHANGED <<trader, api_keys_file>>
           ELSE IF given
           THEN /\ api_keys_file' =
                       CASE save = "saved" -> [coinbase_api_key |-> data.coinbase_api_key,
                                               coinbase_api_secret |-> data.coinbase_api_secret,
                                               openai_api_key |-> data.openai_api_key]
                         [] save = "open_raised" -> api_keys_file
                         [] save = "dump_raised" -> NoKeys
                /\ trader' = create_trader_safe(
                                 [coinbase_api_key |-> data.coinbase_api_key,
                                  coinbase_api_secret |-> data.coinbase_api_secret,
                                  ai_api_key |-> data.openai_api_key], built)
                /\ resp' = reply("success")
           ELSE /\ resp' = reply(raised_in_try("400"))
                /\ UNCHANGED <<trader, api_keys_file>>
    /\ UNCHANGED <<positions, trade_history, next_id, orders, ops, h>>
    /\ UNCHANGED <<file, writer, saved, found>>
    /\ UNCHANGED <<loop, avars, svars>>

\* ------------------------------------------------------ position requests
\* main.py:674-804  POST /api/execute-trade, the whole handler.
\* usd, btc: the available balances the engine reports; result: what the
\* engine's execute_trade returns; price: the last close of
\* fetch_market_data; fail: the engine call that raises, if any.
ExecuteTrade(action, amount, order_type, tif, usd, btc, result, price, fail) ==
    /\ loop_free(loop)
    /\ ops < MaxOps
    /\ ops' = ops + 1
    /\ UNCHANGED <<trader, loop, h>>
    /\ UNCHANGED <<avars, fvars, svars>>
    /\ LET size   == amount \div price
           reply(status, id) ==
               [Response(action, status, None, FALSE, positions, id)
                    EXCEPT !.trade = [action |-> action, amount |-> amount,
                                      order_type |-> order_type, tif |-> tif,
                                      usd |-> usd, btc |-> btc]]
           called(status, id) ==
               [reply(status, id) EXCEPT !.placed = TRUE, !.result = result]
           tracked(status, id) ==
               [called(status, id)
                    EXCEPT !.given = [price |-> price, size |-> size, fail |-> fail]]
           quiet  == UNCHANGED <<positions, trade_history, next_id, orders>>
           id     == IdNames[next_id]
           opened == add_position(positions, id,
                         NewPosition(price, size, default_stop_loss(price),
                                     default_take_profit(price)))
       IN
       IF trader = None
       THEN resp' = reply("400", None) /\ quiet
       ELSE IF \/ action \notin {"BUY", "SELL"}
               \/ order_type \notin {"market", "limit"}
               \/ tif \notin {"gtc", "ioc", "fok"}
       THEN resp' = reply(raised_in_try("400"), None) /\ quiet
       ELSE IF fail = "balance"
       THEN resp' = reply(raised_in_try("error"), None) /\ quiet
       ELSE IF available(action, usd, btc) < amount
       THEN resp' = reply(raised_in_try("400"), None) /\ quiet
       ELSE IF fail = "order"
       THEN resp' = [reply(raised_in_try("error"), None) EXCEPT !.placed = TRUE] /\ quiet
       ELSE IF result = "error"
       THEN resp' = called(raised_in_try("400"), None) /\ quiet
       ELSE IF result # "success"
       THEN resp' = called(raised_in_try("500"), None) /\ quiet
       ELSE /\ orders' = orders + 1
            /\ IF action = "BUY"
               THEN IF fail \in {"fetch", "add"} \/ next_id > MaxPos
                    THEN /\ resp' = tracked("partial_success", None)
                         /\ UNCHANGED <<positions, trade_history, next_id>>
                    ELSE /\ positions' = opened
                         /\ next_id' = next_id + 1
                         /\ IF fail = "log"
                            THEN /\ resp' = tracked("partial_success", None)
                                 /\ UNCHANGED trade_history
                            ELSE /\ trade_history' = log_trade(trade_history, id, size, "BUY", price)
                                 /\ resp' = tracked("success", id)
               ELSE /\ UNCHANGED <<positions, next_id>>
                    /\ IF fail = "log"
                       THEN /\ resp' = called("partial_success", None)
                            /\ UNCHANGED trade_history
                       ELSE /\ trade_history' = log_trade(trade_history, "manual_sell", amount, "SELL", 0)
                            /\ resp' = called("success", None)

\* main.py:835-875  DELETE /api/position/{position_id}, the whole handler
ClosePosition(pid, result, price, fail) ==
    /\ loop_free(loop)
    /\ ops < MaxOps
    /\ ops' = ops + 1
    /\ UNCHANGED <<trader, loop, h, next_id>>
    /\ UNCHANGED <<avars, fvars, svars>>
    /\ LET snapshot == load_active_positions(positions)
           absent == pid \notin DOMAIN snapshot
           reply(status) == Response("close", status, pid, absent, positions, None)
           called(status) == [reply(status) EXCEPT !.placed = TRUE, !.result = result]
           quiet  == UNCHANGED <<positions, trade_history, orders>>
       IN
       IF trader = None
       THEN resp' = Response("close", "400", pid, FALSE, positions, None) /\ quiet
       ELSE IF fail = "load"
       THEN resp' = Response("close", raised_in_try("error"), pid, FALSE, positions, None) /\ quiet
       ELSE IF absent
       THEN resp' = reply(raised_in_try("404")) /\ quiet
       ELSE IF fail = "order"
       THEN resp' = [reply(raised_in_try("error")) EXCEPT !.placed = TRUE] /\ quiet
       ELSE IF ~sell_succeeded(result)
       THEN resp' = called(raised_in_try("500")) /\ quiet
       ELSE /\ orders' = orders + 1
            /\ IF fail = "remove"
               THEN /\ resp' = called(raised_in_try("error"))
                    /\ UNCHANGED <<positions, trade_history>>
               ELSE /\ positions' = remove_position(positions, pid)
                    /\ IF fail \in {"fetch", "log"}
                       THEN /\ resp' = called(raised_in_try("error"))
                            /\ UNCHANGED trade_history
                       ELSE /\ trade_history' = log_trade(trade_history, pid,
                                                     snapshot[pid].size, "SELL", price)
                            /\ resp' = called("success")

\* the update handler returns: response out, event loop free
UpdateDone(status, absent) ==
    /\ resp' = Response("update", status, h.pid, absent, h.snap, None)
    /\ h' = Idle
    /\ loop' = 0

\* main.py:806-816  PUT /api/position/{position_id}: load the set, look the
\* id up
UpdateStart(pid, sl, size, tp, fail) ==
    /\ loop_free(loop)
    /\ ops < MaxOps
    /\ ops' = ops + 1
    /\ UNCHANGED <<trader, positions, trade_history, next_id, orders>>
    /\ UNCHANGED <<avars, fvars, svars>>
    /\ LET snapshot == load_active_positions(positions)
           reply(status, absent) == Response("update", status, pid, absent, positions, None)
       IN
       IF trader = None
       THEN resp' = reply("400", FALSE) /\ UNCHANGED <<h, loop>>
       ELSE IF fail
       THEN resp' = reply(raised_in_try("error"), FALSE) /\ UNCHANGED <<h, loop>>
       ELSE IF pid \notin DOMAIN snapshot
       THEN resp' = reply(raised_in_try("404"), TRUE) /\ UNCHANGED <<h, loop>>
       ELSE /\ h' = [pc |-> "stop_loss", pid |-> pid, stop_loss |-> sl, size |-> size,
                     take_profit |-> tp, snap |-> snapshot]
            /\ loop' = PosLoop
            /\ UNCHANGED resp

\* main.py:818-819  if update.stop_loss: trader.update_position_stop_loss(...)
UpdateStopLoss(ok) ==
    /\ loop = PosLoop
    /\ h.pc = "stop_loss"
    /\ UNCHANGED <<trader, trade_history, next_id, orders, ops>>
    /\ UNCHANGED <<avars, fvars, svars>>
    /\ IF h.stop_loss = 0
       THEN /\ ok
            /\ h' = [h EXCEPT !.pc = "size"]
            /\ UNCHANGED <<positions, resp, loop>>
       ELSE IF ok /\ h.pid \in DOMAIN positions
       THEN /\ positions' = update_position_stop_loss(positions, h.pid, h.stop_loss)
            /\ h' = [h EXCEPT !.pc = "size"]
            /\ UNCHANGED <<resp, loop>>
       ELSE /\ UpdateDone(raised_in_try("error"), FALSE)
            /\ UNCHANGED positions

\* main.py:821-822  if update.size: trader.update_position_size(...)
UpdateSize(ok) ==
    /\ loop = PosLoop
    /\ h.pc = "size"
    /\ UNCHANGED <<trader, trade_history, next_id, orders, ops>>
    /\ UNCHANGED <<avars, fvars, svars>>
    /\ IF h.size = 0
       THEN /\ ok
            /\ h' = [h EXCEPT !.pc = "take_profit"]
            /\ UNCHANGED <<positions, resp, loop>>
       ELSE IF ok /\ h.pid \in DOMAIN positions
       THEN /\ positions' = update_position_size(positions, h.pid, h.size)
            /\ h' = [h EXCEPT !.pc = "take_profit"]
            /\ UNCHANGED <<resp, loop>>
       ELSE /\ UpdateDone(raised_in_try("error"), FALSE)
            /\ UNCHANGED positions

\* main.py:824-830  the take-profit is written into the set loaded at the
\* start of the handler, and that set is saved
UpdateTakeProfit(ok) ==
    /\ loop = PosLoop
    /\ h.pc = "take_profit"
    /\ UNCHANGED <<trader, trade_history, next_id, orders, ops>>
    /\ UNCHANGED <<avars, fvars, svars>>
    /\ IF h.take_profit = 0
       THEN /\ ok
            /\ UpdateDone("success", FALSE)
            /\ UNCHANGED positions
       ELSE IF ok
       THEN /\ positions' = save_active_positions(positions,
                                [h.snap EXCEPT ![h.pid].take_profit = h.take_profit])
            /\ UpdateDone("success", FALSE)
       ELSE /\ UpdateDone(raised_in_try("error"), FALSE)
            /\ UNCHANGED positions

\* ------------------------------------------------------- saving, loading
\* utils.py:14-20 save_json_file and main.py:229-238 save_api_keys_to_file
\* write the file in place: open(filename, "w") empties it, json.dump then
\* writes it chunk by chunk.  Neither takes a lock, and load_json_file can
\* be called from another thread (the scheduler thread of main.py:1066-1068
\* runs the engine beside the event loop) or after a save that broke off.
SaveOpen(doc, fn) ==
    /\ writer.pc = "idle"
    /\ file' = [exists |-> TRUE, text |-> <<>>]
    /\ writer' = [pc |-> "writing", fn |-> fn, doc |-> doc, out |-> None]
    /\ UNCHANGED <<saved, found>>
    /\ UNCHANGED <<trader, loop, avars, pvars, svars, api_keys_file>>

\* json.dump writes the next chunk
SaveWrite ==
    /\ writer.pc = "writing"
    /\ Len(file.text) < Len(dumps(writer.doc))
    /\ file' = [file EXCEPT !.text = Append(@, dumps(writer.doc)[Len(@) + 1])]
    /\ UNCHANGED <<writer, saved, found>>
    /\ UNCHANGED <<trader, loop, avars, pvars, svars, api_keys_file>>

\* json.dump returned and the `with` block closed the file
SaveClose ==
    /\ writer.pc = "writing"
    /\ file.text = dumps(writer.doc)
    /\ writer' = [pc |-> "idle", fn |-> writer.fn, doc |-> writer.doc, out |-> "saved"]
    /\ saved' = [any |-> TRUE, doc |-> writer.doc]
    /\ UNCHANGED <<file, found>>
    /\ UNCHANGED <<trader, loop, avars, pvars, svars, api_keys_file>>

\* write() or json.dump raises before the last chunk (disk full, a value
\* json cannot encode): save_json_file lets the exception out,
\* save_api_keys_to_file logs it (main.py:237-238); the file stays as it is
SaveFails ==
    /\ writer.pc = "writing"
    /\ Len(file.text) < Len(dumps(writer.doc))
    /\ writer' = [pc |-> "idle", fn |-> writer.fn, doc |-> writer.doc,
                  out |-> IF writer.fn = "save_json_file" THEN "raised" ELSE "logged"]
    /\ UNCHANGED <<file, saved, found>>
    /\ UNCHANGED <<trader, loop, avars, pvars, svars, api_keys_file>>

\* utils.py:6-12  load_json_file(filename, default)
Load(default) ==
    /\ LET r == load_json_file(file, default)
       IN found' = [read |-> TRUE, raw |-> file, default |-> default,
                   during |-> writer.pc = "writing",
                   old |-> saved,
                   new |-> IF writer.pc = "writing"
                           THEN [any |-> TRUE, doc |-> writer.doc] ELSE saved,
                   raised |-> r.raised, value |-> r.value]
    /\ UNCHANGED <<file, writer, saved>>
    /\ UNCHANGED <<trader, loop, avars, pvars, svars, api_keys_file>>

NextFile ==
    \/ \E doc \in Docs, fn \in {"save_json_file", "save_api_keys_to_file"} : SaveOpen(doc, fn)
    \/ SaveWrite
    \/ SaveClose
    \/ SaveFails
    \/ \E default \in Defaults : Load(default)

\* ------------------------------------------------------- profit summary
\* main.py:906-930  GET /api/profit-summary, the whole handler.  cp: the
\* last close of fetch_market_data; fail: the engine call that raises
GetProfitSummary(cp, fail) ==
    /\ loop_free(loop)
    /\ LET reply(status, data) ==
               [via |-> "handler", status |-> status, current_price |-> cp,
                fail |-> fail, data |-> data]
           s == calculate_total_profit_summary(trade_history,
                    as_mapping(load_active_positions(positions)), cp)
       IN summary' =
            IF trader = None THEN reply("400", [raised |-> TRUE])
            ELSE IF fail # "none" \/ s.raised THEN reply("500", [raised |-> TRUE])
            ELSE reply("success", s)
    /\ UNCHANGED <<trades, perf, prev, pnl>>
    /\ UNCHANGED <<trader, loop, avars, pvars, fvars>>

\* utils.py:175-243  the function applied to the list of the positions
CalculateTotalProfitSummary(cp) ==
    /\ LET s == calculate_total_profit_summary(trade_history, as_list(positions), cp)
       IN summary' = [via |-> "function",
                      status |-> IF s.raised THEN "raised" ELSE "returned",
                      current_price |-> cp, fail |-> "none", data |-> s]
    /\ UNCHANGED <<trades, perf, prev, pnl>>
    /\ UNCHANGED <<trader, loop, avars, pvars, fvars>>

NextProfit ==
    \/ \E cp \in CurrentPrices, fail \in {"none", "fetch", "history", "load"} :
          GetProfitSummary(cp, fail)
    \/ \E cp \in CurrentPrices : CalculateTotalProfitSummary(cp)

\* -------------------------------------------------- performance summary
\* utils.py:91-173  get_performance_summary(trades)
GetPerformanceSummary ==
    /\ perf' = [computed |-> TRUE, trades |-> trades,
                result |-> get_performance_summary(trades)]
    /\ prev' = perf
    /\ UNCHANGED <<summary, trades, pnl>>
    /\ UNCHANGED <<trader, loop, avars, pvars, fvars>>

\* one more trade joins the list
AddTrade(tr) ==
    /\ Len(trades) <= MaxTrades
    /\ trades' = Append(trades, tr)
    /\ UNCHANGED <<summary, perf, prev, pnl>>
    /\ UNCHANGED <<trader, loop, avars, pvars, fvars>>

NextPerformance ==
    \/ GetPerformanceSummary
    \/ \E tr \in PerfRecords : AddTrade(tr)

\* ---------------------------------------------------- profit functions
\* utils.py:35-40  calculate_profit_loss(entry_price, current_price, size, is_long)
CalculateProfitLoss(is_long) ==
    /\ pnl.trade # OpenTrade
    /\ LET v == Value(calculate_profit_loss(pnl.trade.entry_price, pnl.trade.exit_price,
                                            pnl.trade.size, is_long))
       IN  pnl' = IF is_long THEN [pnl EXCEPT !.long = v] ELSE [pnl EXCEPT !.short = v]
    /\ UNCHANGED <<summary, trades, perf, prev>>
    /\ UNCHANGED <<trader, loop, avars, pvars, fvars>>

\* utils.py:42-47  calculate_profit_loss_percentage(entry_price, current_price, is_long)
CalculateProfitLossPercentage ==
    /\ pnl.trade # OpenTrade
    /\ LET pl_pct == calculate_profit_loss_percentage(pnl.trade.entry_price,
                         pnl.trade.exit_price, pnl.trade.side = "BUY")
       IN  pnl' = [pnl EXCEPT !.pct = IF pl_pct = ZeroDivisionError THEN pl_pct
                                      ELSE Value(pl_pct)]
    /\ UNCHANGED <<summary, trades, perf, prev>>
    /\ UNCHANGED <<trader, loop, avars, pvars, fvars>>

\* utils.py:49-59  is_successful_trade(trade_data)
IsSuccessfulTrade ==
    /\ pnl.trade # OpenTrade
    /\ pnl' = [pnl EXCEPT !.win = IF is_successful_trade_raises(pnl.trade)
                                  THEN ZeroDivisionError
                                  ELSE Value(is_successful_trade(pnl.trade))]
    /\ UNCHANGED <<summary, trades, perf, prev>>
    /\ UNCHANGED <<trader, loop, avars, pvars, fvars>>

NextPnL ==
    \/ \E is_long \in BOOLEAN : CalculateProfitLoss(is_long)
    \/ CalculateProfitLossPercentage
    \/ IsSuccessfulTrade
    \/ GetPerformanceSummary

HandlerStep ==
    \/ \E r \in Reqs : AnalysisStart(r)
    \/ \E r \in Reqs, res \in {"data", "empty", "error"}, ind \in {"ok", "raise"},
          w \in {"live", "hung"} : FetchReturns(r, res, ind, w)
    \/ \E r \in Reqs, w \in {"live", "hung"} : CallTimesOut(r, w)
    \/ \E r \in Reqs : JoinReturns(r)
    \/ \E r \in Reqs, res \in {"data", "empty", "error"}, ind \in {"ok", "raise"} :
          MockReturns(r, res, ind)
    \/ \E r \in Reqs, res \in {"result", "error"} : AnalysisReturns(r, res)

NextAnalysis ==
    \/ \E r \in Reqs, s \in Symbols : Issue(r, s)
    \/ HandlerStep
    \/ Tick

\* execute_trade is a chain of early exits: what lies behind the first
\* check that fails has no effect, so the requests tried differ from a
\* valid, funded, successful order in at most one respect
OneDeviation(x) ==
    LET one(b) == IF b THEN 1 ELSE 0
    IN  one(x.action = "HOLD") + one(x.order_type = "stop") + one(x.tif = "day")
          + one(available(x.action, x.usd, x.btc) < x.amount)
          + one(x.result # "success") + one(x.fail # "none") <= 1

\* the price and the failures of fetch_market_data and add_position are
\* read on the BUY path only (main.py:724-741); of the two balances the
\* handler reads one (main.py:699-710), and the account is funded in one
\* currency only, so that a check of the other one shows
ReadByHandler(x) ==
    /\ x.action # "BUY" => (x.price = 100 /\ x.fail \notin {"fetch", "add"})
    /\ x.usd # x.btc

TradeRequests ==
    {x \in [action : {"BUY", "SELL", "HOLD"}, amount : Amounts,
            order_type : {"market", "stop"}, tif : {"gtc", "day"},
            usd : Balances, btc : Balances, result : {"success", "error", "none"},
            price : Prices, fail : {"none", "balance", "order", "fetch", "add", "log"}] :
        OneDeviation(x) /\ ReadByHandler(x)}

NextPositions ==
    \/ \E x \in TradeRequests :
          ExecuteTrade(x.action, x.amount, x.order_type, x.tif, x.usd, x.btc,
                       x.result, x.price, x.fail)
    \/ \E pid \in PosIds, result \in {"success", "error"}, price \in Prices,
          fail \in {"none", "load", "order", "remove", "fetch", "log"} :
          ClosePosition(pid, result, price, fail)
    \/ \E pid \in PosIds, sl \in StopValues, size \in SizeValues, tp \in ProfitValues,
          fail \in BOOLEAN : UpdateStart(pid, sl, size, tp, fail)
    \/ \E ok \in BOOLEAN : UpdateStopLoss(ok)
    \/ \E ok \in BOOLEAN : UpdateSize(ok)
    \/ \E ok \in BOOLEAN : UpdateTakeProfit(ok)

\* configure_api saves the keys and builds the trader only for a parsed
\* body that holds the three keys (main.py:436); the other requests end
\* before they read anything else
ConfigRequests ==
    {x \in [data : ConfigBodies, parsed : BOOLEAN,
            save : {"saved", "open_raised", "dump_raised"}, built : BOOLEAN] :
        /\ ~x.parsed => x.data = SavedKeys
        /\ (~x.parsed \/ "openai_api_key" \notin DOMAIN x.data)
              => (x.save = "saved" /\ x.built)}

\* configuration requests among the position requests, which need a trader
NextConfigure ==
    \/ \E x \in ConfigRequests : ConfigureApi(x.data, x.parsed, x.save, x.built)
    \/ NextPositions

Next == NextAnalysis \/ NextPositions \/ NextFile \/ NextProfit \/ NextPerformance \/ NextPnL
            \/ NextConfigure

\* the whole server
Spec == Init /\ [][Next]_vars

\* The handlers run one at a time on the event loop, and the analysis
\* handler and the position handlers share no state but the trader and the
\* loop: each group is explored on its own.
SpecAnalysis == Init /\ [][NextAnalysis]_vars
SpecPositions == Init /\ [][NextPositions]_vars
SpecConfigure == Init /\ [][NextConfigure]_vars

\* one persisted file, its writers and readers
SpecFile == Init /\ [][NextFile]_vars

\* the profit summary over the stores and trade histories of InitProfit
SpecProfit == InitProfit /\ [][NextProfit]_vars

\* the performance summary over the trade lists of InitPerformance
SpecPerformance == InitPerformance /\ [][NextPerformance]_vars
\* the profit functions and the summarizer over the trades of InitPnL
SpecPnL == InitPnL /\ [][NextPnL]_vars

\* the event loop keeps running a handler that can take a step; a worker
\* that never returns ("hung") enables none
FairSpec == SpecAnalysis /\ WF_vars(HandlerStep)
\* ======================================================== analysis claims
Started(r) == req[r].pc \notin {"new", "queued"}
Done(r) == req[r].pc = "done"
\* the request reached the gate: trader installed and symbol known
Admitted(r) == Started(r) /\ req[r].out # "400"
Others(s, rs) == {q \in Reqs \ rs : req[q].pc # "new" /\ req[q].sym = s}

\* C1: at most one analysis per symbol runs at a time, and of two requests
\* for one symbol that arrive together, with nothing cached and nothing in
\* progress (and no third request for the symbol), exactly one invokes the
\* external analysis.
C1_ExactlyOneInvocation ==
    /\ \A s \in Symbols : Cardinality({r \in Reqs : InPipeline(r) /\ req[r].sym = s}) <= 1
    /\ \A r1, r2 \in Reqs :
          ( /\ r1 \in req[r2].peers
            /\ Others(req[r1].sym, {r1, r2}) = {}
            /\ Done(r1) /\ Done(r2) /\ Admitted(r1) /\ Admitted(r2) )
          => Cardinality({r \in {r1, r2} : req[r].ran}) = 1

\* C2: a set in_progress flag always belongs to a call that has not returned
\* yet: no call that set the flag has returned and left it set.
C2_FlagClearedOnReturn ==
    \A s \in Symbols :
        analysis_in_progress[s] => \E r \in Reqs : InPipeline(r) /\ req[r].sym = s

C2_Witness ==
    \E r1, r2, r3 \in Reqs :
        /\ req[r1].ran /\ Done(r1) /\ req[r1].out = "504"
        /\ req[r2].ran /\ Done(r2) /\ req[r2].out = "500"
        /\ req[r3].ran /\ Done(r3) /\ req[r3].out = "success"
        /\ \A s \in Symbols : ~analysis_in_progress[s]

\* C3: once the timeout of the fetch or of the analysis has expired, the
\* request ends with 504 and the symbol's flag is cleared, whether or not
\* the external call ever returns.
C3_TimeoutAbandons ==
    \A r \in Reqs :
        (req[r].pc \in {"fetch_join", "analyze_join"})
            ~> (req[r].out = "504" /\ ~analysis_in_progress[req[r].sym])

\* C4: a request made while in_progress[symbol] is true is answered with
\* Conflict (429) and makes no external call.
C4_ConflictWhenBusy ==
    \A r \in Reqs :
        (req[r].busyAtIssue /\ Done(r) /\ Admitted(r))
            => (req[r].out = "429" /\ ~req[r].ran)

\* C5: with no analysis in progress, an entry younger than 15 minutes is
\* returned as it is with no external call; no entry, or one 15 minutes old
\* or older, starts a fresh external analysis.
C5_CacheFreshness ==
    \A r \in Reqs :
        (Admitted(r) /\ ~req[r].sawBusy) =>
            LET e == req[r].entry
                young == e # NoEntry /\ req[r].at - e.timestamp < CacheTTL
            IN  /\ young => (req[r].out = "cached" /\ req[r].ret = e /\ ~req[r].ran)
                /\ ~young => req[r].ran

C5_Witness ==
    \E r1, r2 \in Reqs :
        /\ Admitted(r1) /\ req[r1].out = "cached"
        /\ req[r1].at - req[r1].entry.timestamp = TickStep
        /\ Admitted(r2) /\ req[r2].entry # NoEntry
        /\ req[r2].at - req[r2].entry.timestamp = CacheTTL
        /\ req[r2].ran

\* C6: while an analysis for one symbol is in progress, a waiting request for
\* another symbol can enter its own analysis and is not answered 429.
C6_OtherSymbolRunsConcurrently ==
    \A ra, rb \in Reqs :
        ( /\ InPipeline(ra)
          /\ req[rb].pc = "queued"
          /\ req[rb].sym # req[ra].sym
          /\ req[rb].sym \in all_symbols
          /\ trader # None )
        => ENABLED (AnalysisStart(rb) /\ req'[rb].out # "429")

\* C7: a cache entry changes only in the step in which an analysis for its
\* symbol ends with success, and then to an entry stamped with the time of
\* that step; every successful analysis writes one; no step removes an entry.
C7_CacheOnlyOnSuccess ==
    [][ /\ \A s \in Symbols :
              analysis_cache'[s] # analysis_cache[s] =>
                  /\ analysis_cache'[s] # NoEntry
                  /\ \E r \in Reqs : /\ req[r].sym = s
                                     /\ req[r].pc = "analyze"
                                     /\ req'[r].out = "success"
        /\ \A r \in Reqs :
              (req[r].pc = "analyze" /\ req'[r].out = "success") =>
                  /\ analysis_cache'[req[r].sym] # NoEntry
                  /\ analysis_cache'[req[r].sym].timestamp = now
                  /\ req'[r].ret = analysis_cache'[req[r].sym]
      ]_vars

C7_Witness ==
    \E r1, r2 \in Reqs :
        /\ req[r1].out = "success"
        /\ req[r2].sym = req[r1].sym
        /\ req[r2].ran /\ req[r2].out \in {"500", "504"}
        /\ req[r2].entry = req[r1].ret
        /\ analysis_cache[req[r1].sym] = req[r1].ret
\* ======================================================== position claims
Created == {IdNames[i] : i \in 1..(next_id - 1)}
Sold(id) == \E i \in DOMAIN trade_history :
                trade_history[i].position_id = id /\ trade_history[i].side = "SELL"

\* C8: between requests, a position id that was opened is in the store if
\* and only if the trade history holds no SELL trade with that id.
C8_StoreIffNotSold ==
    loop = 0 => \A id \in Created : (id \in DOMAIN positions) <=> ~Sold(id)

\* C9: an update or a close addressed to an id that is not in the store is
\* answered 404 and leaves the persisted set as it was.
C9_UnknownIdNotFound ==
    (loop = 0 /\ resp.kind \in {"update", "close"} /\ resp.absent)
        => (resp.status = "404" /\ positions = resp.before)

\* C10: each write of update_position (stop_loss, size, take_profit) turns
\* the store it finds into that store with the one named field of the one
\* position replaced.
C10_UpdateChangesOneField ==
    [][ (loop = PosLoop /\ positions' # positions) =>
            positions' = [positions EXCEPT ![h.pid][h.pc] = h[h.pc]] ]_vars

\* C11: position requests in flight together are handled one after the
\* other: while update_position is between its load and its last write, the
\* persisted set differs from the set it loaded only in what the handler
\* itself has written (stop_loss and size of its own position); no other
\* request adds, removes or changes a position in between, so the set it
\* saves undoes no other request's change.
C11_MutationsSerialized ==
    loop = PosLoop =>
        /\ DOMAIN positions = DOMAIN h.snap
        /\ \A id \in DOMAIN positions :
              /\ id # h.pid => positions[id] = h.snap[id]
              /\ positions[id].entry_price = h.snap[id].entry_price
              /\ positions[id].take_profit = h.snap[id].take_profit
              /\ positions[id].stop_loss \in {h.snap[id].stop_loss, h.stop_loss}
              /\ positions[id].size \in {h.snap[id].size, h.size}

C11_Witness ==
    /\ loop = PosLoop
    /\ h.pc = "take_profit"
    /\ h.take_profit # 0
    /\ Cardinality(DOMAIN positions) = 2
    /\ positions # h.snap
    /\ resp.kind = "BUY" /\ resp.status = "success"

\* C14: a BUY answered with a position id has put that id into the store
\* with entry price = the fetched price, size = amount / price, stop loss
\* 5% below and take profit 10% above the price; when add_position (or the
\* price fetch before it) fails, the answer carries no position id and the
\* store is as it was.
C14_BuyAddsPosition ==
    (loop = 0 /\ resp.kind = "BUY") =>
        /\ resp.position_id # None =>
              /\ resp.position_id \in DOMAIN positions
              /\ resp.position_id \notin DOMAIN resp.before
              /\ positions[resp.position_id] =
                     [entry_price |-> resp.given.price,
                      size |-> resp.given.size,
                      stop_loss |-> (resp.given.price * 95) \div 100,
                      take_profit |-> (resp.given.price * 110) \div 100]
        /\ (resp.given.fail \in {"fetch", "add"}) =>
              /\ resp.position_id = None
              /\ positions = resp.before

C14_Witness ==
    /\ loop = 0
    /\ resp.kind = "BUY"
    /\ resp.position_id = "p2"
    /\ "p2" \in DOMAIN positions
    /\ positions["p2"].size = 4
\* ============================================================ file claims
\* C12: whatever a load finds on disk is the complete text of the data last
\* saved or the complete text of the data being saved, never an empty or a
\* partly written file; this also after a save that broke off.
C12_AtomicReplace ==
    found.read =>
        IF found.raw.exists
        THEN \/ found.old.any /\ found.raw.text = dumps(found.old.doc)
             \/ found.new.any /\ found.raw.text = dumps(found.new.doc)
        ELSE ~found.old.any

IsBuy(tr) == "side" \in DOMAIN tr /\ tr.side = "BUY"
IsSell(tr) == "side" \in DOMAIN tr /\ tr.side = "SELL"
Has(tr, k) == k \in DOMAIN tr
\* the sum of val(i) over the trades of the history that satisfy pick(i)
HistorySum(pick(_), val(_)) ==
    SumTo([i \in 1..Len(trade_history) |-> IF pick(i) THEN val(i) ELSE 0],
          Len(trade_history))
Returned == summary.via # "none" /\ ~summary.data.raised
HeldIds == SelectSeq(IdNames, LAMBDA k : k \in DOMAIN positions)

\* C15: with trade records that have no price in the history, the summary
\* is returned, and total_investment, total_buy_volume and
\* total_sell_volume are what the records that have a price alone give.
C15_MissingPriceAddsNothing ==
    summary.via = "function" =>
        LET th == trade_history
        IN  /\ ~summary.data.raised
            /\ summary.data.total_investment =
                   HistorySum(LAMBDA i : IsBuy(th[i]) /\ Has(th[i], "price"),
                              LAMBDA i : th[i].price * th[i].size)
            /\ summary.data.total_buy_volume =
                   HistorySum(LAMBDA i : IsBuy(th[i]) /\ Has(th[i], "price"),
                              LAMBDA i : th[i].size)
            /\ summary.data.total_sell_volume =
                   HistorySum(LAMBDA i : IsSell(th[i]) /\ Has(th[i], "price"),
                              LAMBDA i : th[i].size)

\* C17: the profit summary of the store's mapping, computed by the
\* endpoint at a fetched price, has unrealized_profit = the sum of
\* (current_price - entry_price) * size over the open positions,
\* open_positions_count = their number, and unrealized_profit_percentage =
\* unrealized_profit / (sum of entry_price * size) * 100, 0 for no position.
C17_UnrealizedOverStore ==
    (summary.via = "handler" /\ trader # None /\ summary.fail = "none") =>
        LET n == Len(HeldIds)
            unrealized == SumTo([i \in 1..n |->
                              (summary.current_price - positions[HeldIds[i]].entry_price)
                                  * positions[HeldIds[i]].size], n)
            value == SumTo([i \in 1..n |-> positions[HeldIds[i]].entry_price
                                              * positions[HeldIds[i]].size], n)
        IN  /\ summary.status = "success"
            /\ summary.data.unrealized_profit = unrealized
            /\ summary.data.open_positions_count = Cardinality(DOMAIN positions)
            /\ IF value = 0
               THEN summary.data.unrealized_profit_percentage = Whole(0)
               ELSE summary.data.unrealized_profit_percentage.num * value =
                        unrealized * 100 * summary.data.unrealized_profit_percentage.den

\* C18: a returned summary has total_investment = sum of price * size over
\* the BUY trades, total_buy_volume / total_sell_volume = sum of size over
\* the BUY / SELL trades, realized_profit = sum of profit_amount over the
\* SELL trades that carry one, total_profit = realized + unrealized, and
\* realized_profit_percentage = realized_profit / total_investment * 100,
\* or 0 when total_investment is 0.
C18_HistoryTotals ==
    Returned =>
        LET th == trade_history
            d == summary.data
            investment == HistorySum(LAMBDA i : IsBuy(th[i]) /\ Has(th[i], "price"),
                                     LAMBDA i : th[i].price * th[i].size)
            realized == HistorySum(LAMBDA i : IsSell(th[i]) /\ Has(th[i], "profit_amount"),
                                   LAMBDA i : th[i].profit_amount)
        IN  /\ d.total_investment = investment
            /\ d.total_buy_volume = HistorySum(LAMBDA i : IsBuy(th[i]), LAMBDA i : th[i].size)
            /\ d.total_sell_volume = HistorySum(LAMBDA i : IsSell(th[i]), LAMBDA i : th[i].size)
            /\ d.realized_profit = realized
            /\ d.total_profit = realized + d.unrealized_profit
            /\ IF investment = 0
               THEN d.realized_profit_percentage = Whole(0)
               ELSE /\ d.realized_profit_percentage.den # 0
                    /\ d.realized_profit_percentage.num * investment =
                           realized * 100 * d.realized_profit_percentage.den

C18_Witness ==
    /\ Returned
    /\ Len(trade_history) = 3
    /\ summary.data.total_investment = 200
    /\ summary.data.realized_profit = 10
    /\ summary.data.unrealized_profit = 40
    /\ summary.data.total_profit = 50
    /\ summary.data.realized_profit_percentage = Ratio(1000, 200)

\* C19: closed_positions_count is the number of distinct position ids on
\* the SELL trades of the history: SELL trades of one id count once, BUY
\* trades not at all.
C19_ClosedCountDistinct ==
    Returned =>
        summary.data.closed_positions_count =
            Cardinality({trade_history[i].position_id :
                            i \in {j \in 1..Len(trade_history) : IsSell(trade_history[j])}})

C19_Witness ==
    /\ Returned
    /\ Len(trade_history) = 3
    /\ IsBuy(trade_history[1]) /\ trade_history[1].position_id = "p1"
    /\ IsSell(trade_history[2]) /\ trade_history[2].position_id = "p1"
    /\ IsSell(trade_history[3]) /\ trade_history[3].position_id = "p1"
    /\ trade_history[2] # trade_history[3]
    /\ summary.data.closed_positions_count = 1
\* ===================================================== performance claims
SameRatio(a, b) == a.num * b.den = b.num * a.den
\* the last summary is that of the list of the summary before it with one
\* trade that has no exit_price added
OpenTradeAdded ==
    /\ perf.computed /\ prev.computed
    /\ Len(perf.trades) = Len(prev.trades) + 1
    /\ SubSeq(perf.trades, 1, Len(prev.trades)) = prev.trades
    /\ "exit_price" \notin DOMAIN perf.trades[Len(perf.trades)]

\* C16: get_performance_summary returns a summary for every list of
\* trades, also when records lack entry_price, exit_price or size, and such
\* records add nothing to profit_loss.
C16_NeverRaises ==
    perf.computed =>
        LET ts == perf.trades
        IN  /\ ~perf.result.raised
            /\ perf.result.total_trades = Len(ts)
            /\ perf.result.profit_loss =
                   SumTo([i \in 1..Len(ts) |-> IF key_error(ts[i]) THEN 0
                                               ELSE trade_profit_loss(ts[i])], Len(ts))

\* C20 as stated: a trade with no exit_price is not winning, and adding it
\* to the list changes none of win_rate, profit_loss, avg_profit_per_trade,
\* avg_loss_per_trade, max_profit, max_loss.
C20_OpenTradeChangesNothing ==
    OpenTradeAdded =>
        /\ ~is_successful_trade(perf.trades[Len(perf.trades)])
        /\ perf.result.raised = prev.result.raised
        /\ ~perf.result.raised =>
              /\ SameRatio(perf.result.win_rate, prev.result.win_rate)
              /\ perf.result.profit_loss = prev.result.profit_loss
              /\ SameRatio(perf.result.avg_profit_per_trade, prev.result.avg_profit_per_trade)
              /\ SameRatio(perf.result.avg_loss_per_trade, prev.result.avg_loss_per_trade)
              /\ perf.result.max_profit = prev.result.max_profit
              /\ perf.result.max_loss = prev.result.max_loss

\* C20 amended: a trade with no exit_price is not winning, and adding it to
\* the list changes none of profit_loss, avg_profit_per_trade,
\* avg_loss_per_trade, max_profit, max_loss; it counts in total_trades, so
\* win_rate, the winners over all trades, becomes win_rate * n / (n + 1)
\* for a list of n trades.
C20_OpenTradeOnlyInTotal ==
    OpenTradeAdded =>
        /\ ~is_successful_trade(perf.trades[Len(perf.trades)])
        /\ perf.result.raised = prev.result.raised
        /\ ~perf.result.raised =>
              LET n == Len(prev.trades)
              IN  /\ perf.result.total_trades = n + 1
                  /\ perf.result.win_rate.num * (n + 1) * prev.result.win_rate.den =
                         prev.result.win_rate.num * n * perf.result.win_rate.den
                  /\ perf.result.profit_loss = prev.result.profit_loss
                  /\ SameRatio(perf.result.avg_profit_per_trade,
                               prev.result.avg_profit_per_trade)
                  /\ SameRatio(perf.result.avg_loss_per_trade,
                               prev.result.avg_loss_per_trade)
                  /\ perf.result.max_profit = prev.result.max_profit
                  /\ perf.result.max_loss = prev.result.max_loss

C20_Witness ==
    /\ OpenTradeAdded
    /\ ~perf.result.raised
    /\ prev.result.win_rate = Ratio(100, 2)
    /\ perf.result.win_rate = Ratio(100, 3)
    /\ perf.result.profit_loss = 30
    /\ perf.result.max_loss = -10

C22_ZeroEntryInvalidInput ==
    pnl.trade.entry_price = 0 =>
        /\ pnl.pct # NotCalled => pnl.pct.raised /\ pnl.pct.error = "InvalidInput"
        /\ pnl.win # NotCalled => pnl.win.raised /\ pnl.win.error = "InvalidInput"
        /\ perf.computed => perf.result.raised /\ perf.result.error = "InvalidInput"

\* C23: for a positive entry price, current price and size, the profit of
\* the long position is the negation of the profit of the short one.
C23_LongShortNegation ==
    /\ pnl.long # NotCalled /\ pnl.short # NotCalled
    /\ pnl.trade.entry_price > 0 /\ pnl.trade.exit_price > 0 /\ pnl.trade.size > 0
    => pnl.long.value = -pnl.short.value

\* C23 witness: bought at 100, priced at 120, size 2: 40 long, -40 short
C23_Witness ==
    /\ pnl.trade.entry_price = 100 /\ pnl.trade.exit_price = 120 /\ pnl.trade.size = 2
    /\ pnl.long = Value(40)
    /\ pnl.short = Value(-40)

\* ================================================ position request claims
\* C24: when an update_position request that carries a stop_loss, a size
\* and a take_profit ends with success, the persisted position holds the
\* three values of the request.
C24_UpdateKeepsAllThree ==
    [][ ( /\ loop = PosLoop /\ h.pc = "take_profit"
          /\ h.stop_loss # 0 /\ h.size # 0 /\ h.take_profit # 0
          /\ h' = Idle /\ resp'.status = "success" )
        => /\ h.pid \in DOMAIN positions'
           /\ positions'[h.pid].stop_loss = h.stop_loss
           /\ positions'[h.pid].size = h.size
           /\ positions'[h.pid].take_profit = h.take_profit ]_vars

\* C25: close_position takes a position out of the store only after the
\* engine's SELL order for it returned success; when the id is unknown or
\* the SELL did not succeed, the position set is unchanged and no trade is
\* logged.
C25_CloseOnlyAfterSell ==
    [][ (resp'.kind = "close" /\ ops' = ops + 1 /\ h' = h) =>
            /\ positions' # positions =>
                  /\ resp'.placed /\ resp'.result = "success"
                  /\ resp'.pid \in DOMAIN positions
                  /\ DOMAIN positions' = DOMAIN positions \ {resp'.pid}
                  /\ \A id \in DOMAIN positions' : positions'[id] = positions[id]
            /\ (resp'.absent \/ ~resp'.placed \/ resp'.result # "success") =>
                  positions' = positions /\ trade_history' = trade_history ]_vars

\* C25 witness: a close whose SELL order succeeded: the position is gone from
\* the store and its SELL trade is logged
C25_Witness ==
    /\ resp.kind = "close" /\ resp.status = "success"
    /\ resp.placed /\ resp.result = "success"
    /\ resp.pid \in DOMAIN resp.before
    /\ resp.pid \notin DOMAIN positions
    /\ Sold(resp.pid)

\* C27: execute_trade calls the engine's execute_trade only when the
\* action is BUY or SELL, the order type market or limit, the time in force
\* gtc, ioc or fok, and the available balance, USD for a BUY and BTC for a
\* SELL, is at least the amount; when one of these fails, no order is
\* placed, no position is added and no trade is logged.
C27_OrderOnlyWhenValid ==
    [][ (resp'.kind \in {"BUY", "SELL", "HOLD"} /\ ops' = ops + 1 /\ h' = h) =>
            LET x == resp'.trade
                valid == /\ x.action \in {"BUY", "SELL"}
                         /\ x.order_type \in {"market", "limit"}
                         /\ x.tif \in {"gtc", "ioc", "fok"}
                         /\ x.action = "BUY" => x.usd >= x.amount
                         /\ x.action = "SELL" => x.btc >= x.amount
            IN  /\ resp'.placed => valid
                /\ orders' # orders => resp'.placed
                /\ ~valid => /\ ~resp'.placed
                              /\ orders' = orders
                              /\ positions' = positions
                              /\ trade_history' = trade_history ]_vars

\* C27 witness: a SELL of 200 with 1000 BTC and no USD available is placed
C27_Witness ==
    /\ resp.kind = "SELL" /\ resp.status = "success" /\ resp.placed
    /\ resp.trade.amount = 200 /\ resp.trade.btc = 1000 /\ resp.trade.usd = 0
    /\ orders > 0

\* C28: a BUY answered partial_success added no position, and a BUY that
\* added a position reports the id of that position.
C28_PartialSuccessAddsNothing ==
    [][ (resp'.kind = "BUY" /\ ops' = ops + 1 /\ h' = h) =>
            /\ resp'.status = "partial_success" => positions' = positions
            /\ positions' # positions =>
                  resp'.position_id \in DOMAIN positions' \ DOMAIN positions ]_vars

\* ========================================== analysis and configuration claims
\* C26: a get_ai_analysis request that ends without running an analysis,
\* answered 429, 400 or from the cache, leaves analysis_in_progress and
\* analysis_cache as they were.
C26_NoRunNoChange ==
    [][ \A r \in Reqs :
            ( /\ req[r].pc = "queued" /\ req'[r].pc = "done"
              /\ req'[r].out \in {"429", "400", "cached"} )
            => /\ ~req'[r].ran
               /\ analysis_in_progress' = analysis_in_progress
               /\ analysis_cache' = analysis_cache ]_vars

\* C26 witness: a request was served from the cache after the entry was
\* written, another was answered 400, and the entry still carries the time
\* of the analysis
C26_Witness ==
    \E r1, r2 \in Reqs :
        /\ req[r1].out = "cached"
        /\ req[r1].at > req[r1].entry.timestamp
        /\ analysis_cache[req[r1].sym] = req[r1].entry
        /\ req[r1].ret = req[r1].entry
        /\ ~analysis_in_progress[req[r1].sym]
        /\ req[r2].out = "400" /\ req[r2].at >= req[r1].at

\* C29: when configure_api answers success the global trader is not None,
\* and when the trader cannot be created it does not answer success.
C29_SuccessMeansTrader ==
    (resp.kind = "configure" /\ resp.status = "success") => trader # None

====
